---- MODULE Spec2Model ----
(***************************************************************************)
(* DocuMind: the tool-calling agent (src/agent/agent.py) and its three     *)
(* filesystem primitives (src/functions).                                  *)
(*                                                                         *)
(* Strings are sequences of one-character strings, so that path            *)
(* normalisation, tail stripping, sorting and newline translation are      *)
(* computed character by character as the Python code computes them.       *)
(* The filesystem is a function from component paths (sequences of names)  *)
(* to nodes; only existing entries are in its domain.                      *)
(***************************************************************************)
EXTENDS Integers, Sequences, FiniteSets, TLC

\* ------------------------------------------------------------------ bounds
\* Largest max_steps a run is started with.
MaxSteps == 2
\* Largest number of tool calls in one model response.
MaxCalls == 2
\* Largest number of tool calls the model issues over a whole run.
MaxToolCalls == 2

\* ----------------------------------------------------------------- strings
\* Python's None, apart from every string (a string is a sequence of characters).
None == <<"None">>

\* Code points of the characters used (Python compares str by code point).
Ord(c) ==
  CASE c = "\n" -> 10
    [] c = "\r" -> 13
    [] c = " "  -> 32
    [] c = "\"" -> 34
    [] c = "."  -> 46
    [] c = "/"  -> 47
    [] c = "a"  -> 97
    [] c = "b"  -> 98
    [] c = "c"  -> 99
    [] c = "d"  -> 100
    [] c = "e"  -> 101
    [] c = "h"  -> 104
    [] c = "i"  -> 105
    [] c = "k"  -> 107
    [] c = "m"  -> 109
    [] c = "n"  -> 110
    [] c = "s"  -> 115
    [] c = "t"  -> 116
    [] c = "w"  -> 119
    [] c = "x"  -> 120
    [] c = "z"  -> 122
    [] c = "}"  -> 125
    [] c = "~"  -> 126

\* str < str in Python: lexicographic by code point, a proper prefix is smaller.
RECURSIVE StrLess(_, _)
StrLess(s, t) ==
  IF t = <<>> THEN FALSE
  ELSE IF s = <<>> THEN TRUE
  ELSE IF Ord(Head(s)) < Ord(Head(t)) THEN TRUE
  ELSE IF Ord(Head(s)) > Ord(Head(t)) THEN FALSE
  ELSE StrLess(Tail(s), Tail(t))

\* body(e) with e evaluated once, before body is (TLC evaluates the definitions
\* of a LET each time they are used).
With(body(_), e) == CHOOSE r \in {body(v) : v \in {e}} : TRUE

Front(s) == SubSeq(s, 1, Len(s) - 1)
Last(s) == s[Len(s)]

StartsWith(s, p) == Len(s) >= Len(p) /\ SubSeq(s, 1, Len(p)) = p

\* str.split("/"): the pieces between slashes, empty pieces included.
RECURSIVE SplitSlash(_, _, _)
SplitSlash(s, cur, acc) ==
  IF s = <<>> THEN Append(acc, cur)
  ELSE IF Head(s) = "/" THEN SplitSlash(Tail(s), <<>>, Append(acc, cur))
  ELSE SplitSlash(Tail(s), Append(cur, Head(s)), acc)

\* "/".join(comps)
RECURSIVE JoinSlash(_)
JoinSlash(comps) ==
  IF comps = <<>> THEN <<>>
  ELSE IF Len(comps) = 1 THEN comps[1]
  ELSE comps[1] \o <<"/">> \o JoinSlash(Tail(comps))

\* ------------------------------------------------------------- environment
\* The process's working directory and the HOME of the user running it.
Cwd == <<"/", "d">>
Home == <<"/", "h">>

\* posixpath.expanduser: "~" and "~/..." are replaced by HOME; "~name" asks the
\* password database, which knows no user here, and is returned unchanged.
expanduser(path) ==
  IF path = <<>> \/ Head(path) # "~" THEN path
  ELSE IF Len(path) = 1 THEN Home
  ELSE IF path[2] = "/" THEN Home \o Tail(path)
  ELSE path

\* The loop of posixpath.normpath over the split components.
RECURSIVE NormComps(_, _, _)
NormComps(comps, new, rooted) ==
  IF comps = <<>> THEN new
  ELSE LET c == Head(comps) IN
    IF c = <<>> \/ c = <<".">> THEN NormComps(Tail(comps), new, rooted)
    ELSE IF c # <<".", ".">>
            \/ (~rooted /\ new = <<>>)
            \/ (new # <<>> /\ Last(new) = <<".", ".">>)
      THEN NormComps(Tail(comps), Append(new, c), rooted)
    ELSE IF new # <<>> THEN NormComps(Tail(comps), Front(new), rooted)
    ELSE NormComps(Tail(comps), new, rooted)

\* posixpath.normpath: POSIX keeps exactly two leading slashes apart from one.
normpath(path) ==
  IF path = <<>> THEN <<".">>
  ELSE
    LET initial_slashes ==
          IF Head(path) # "/" THEN 0
          ELSE IF StartsWith(path, <<"/", "/">>) /\ ~StartsWith(path, <<"/", "/", "/">>)
            THEN 2 ELSE 1
        body == JoinSlash(NormComps(SplitSlash(path, <<>>, <<>>), <<>>, initial_slashes > 0))
        res == [i \in 1..initial_slashes |-> "/"] \o body
    IN IF res = <<>> THEN <<".">> ELSE res

\* posixpath.join(a, b) for a relative b
pathjoin(a, b) ==
  IF a = <<>> \/ Last(a) = "/" THEN a \o b ELSE a \o <<"/">> \o b

\* posixpath.abspath
abspath(path) ==
  IF path # <<>> /\ Head(path) = "/" THEN normpath(path)
  ELSE normpath(pathjoin(Cwd, path))

normalize_path(path) == abspath(expanduser(path))

\* The names the kernel walks for an absolute path string.
Components(norm) == SelectSeq(SplitSlash(norm, <<>>, <<>>), LAMBDA c : c # <<>>)

\* posixpath.dirname
dirname(p) ==
  LET idx == {i \in 1..Len(p) : p[i] = "/"}
      i == IF idx = {} THEN 0 ELSE CHOOSE k \in idx : \A j \in idx : j <= k
      head == SubSeq(p, 1, i)
  IN IF head # <<>> /\ \E k \in 1..Len(head) : head[k] # "/"
       THEN LET cut == CHOOSE k \in 1..Len(head) :
                         head[k] # "/" /\ \A j \in (k+1)..Len(head) : head[j] = "/"
            IN SubSeq(head, 1, cut)
       ELSE head

\* -------------------------------------------------------------- filesystem
\* A node of the tree: a regular file with its bytes, a directory, a symbolic
\* link with the component path it points to, or a socket (something that is
\* neither file, directory nor link).
FileNode(bytes) == [kind |-> "file", data |-> bytes, target |-> <<>>]
DirNode == [kind |-> "dir", data |-> <<>>, target |-> <<>>]
LinkNode(t) == [kind |-> "link", data |-> <<>>, target |-> t]
SocketNode == [kind |-> "socket", data |-> <<>>, target |-> <<>>]

\* errno 0, and no exception
NoErr == "OK"
NoExc == "none"

\* Symbolic links followed before the kernel gives up (ELOOP).
MaxSymlinks == 4

\* Path resolution as stat(2) does it: every component is looked up in the
\* directory reached so far and symbolic links are followed. The root always
\* exists. at = the component path of the node found.
RECURSIVE Walk(_, _, _, _)
Walk(f, cur, rest, fuel) ==
  IF rest = <<>> THEN [ok |-> TRUE, at |-> cur, err |-> NoErr]
  ELSE
    LET nxt == Append(cur, Head(rest)) IN
    IF nxt \notin DOMAIN f THEN [ok |-> FALSE, at |-> nxt, err |-> "ENOENT"]
    ELSE IF f[nxt].kind = "link" THEN
      IF fuel = 0 THEN [ok |-> FALSE, at |-> nxt, err |-> "ELOOP"]
      ELSE Walk(f, <<>>, f[nxt].target \o Tail(rest), fuel - 1)
    ELSE IF f[nxt].kind = "dir" THEN Walk(f, nxt, Tail(rest), fuel)
    ELSE IF Tail(rest) = <<>> THEN [ok |-> TRUE, at |-> nxt, err |-> NoErr]
    ELSE [ok |-> FALSE, at |-> nxt, err |-> "ENOTDIR"]

stat(f, path) == Walk(f, <<>>, Components(path), MaxSymlinks)

KindAt(f, at) == IF at = <<>> THEN "dir" ELSE f[at].kind

\* os.path.exists / isdir / isfile: stat, so links are followed.
exists(f, path) == stat(f, path).ok
isdir(f, path) == LET st == stat(f, path) IN st.ok /\ KindAt(f, st.at) = "dir"
isfile(f, path) == LET st == stat(f, path) IN st.ok /\ KindAt(f, st.at) = "file"

\* os.path.getsize
getsize(f, path) == Len(f[stat(f, path).at].data)

\* The names os.listdir finds in a directory (in no particular order).
ChildNames(f, path) ==
  LET at == stat(f, path).at
  IN {Last(q) : q \in {r \in DOMAIN f : Len(r) = Len(at) + 1 /\ Front(r) = at}}

\* The names of a set in ascending order.
Ascending(S) ==
  [k \in 1..Cardinality(S) |->
     CHOOSE x \in S : Cardinality({y \in S : StrLess(y, x)}) = k - 1]

Reverse(seq) == [i \in 1..Len(seq) |-> seq[Len(seq) + 1 - i]]

\* os.listdir returns the names in arbitrary (on-disk) order. Two such orders
\* are taken: descending, and ascending rotated by one.
ListdirOrders(f, path) ==
  LET asc == Ascending(ChildNames(f, path))
  IN {Reverse(asc), IF asc = <<>> THEN asc ELSE Tail(asc) \o <<Head(asc)>>}

\* The exception class Python raises for an errno.
ExcOf(err) ==
  CASE err = "ENOENT" -> "FileNotFoundError"
    [] err = "ENOTDIR" -> "NotADirectoryError"
    [] err = "EEXIST" -> "FileExistsError"
    [] err = "EISDIR" -> "IsADirectoryError"
    [] OTHER -> "OSError"

\* mkdir(2): the parent must resolve to a directory and the name must be free
\* (a dangling link occupies its name).
mkdir(f, path) ==
  LET comps == Components(path)
      par == Walk(f, <<>>, Front(comps), MaxSymlinks)
  IN IF comps = <<>> THEN [ok |-> FALSE, fs |-> f, err |-> "EEXIST"]
     ELSE IF ~par.ok THEN [ok |-> FALSE, fs |-> f, err |-> par.err]
     ELSE IF KindAt(f, par.at) # "dir" THEN [ok |-> FALSE, fs |-> f, err |-> "ENOTDIR"]
     ELSE LET leaf == Append(par.at, Last(comps)) IN
       IF leaf \in DOMAIN f THEN [ok |-> FALSE, fs |-> f, err |-> "EEXIST"]
       ELSE [ok |-> TRUE, fs |-> (leaf :> DirNode) @@ f, err |-> NoErr]

\* os.makedirs(name, exist_ok=True)
RECURSIVE makedirs(_, _)
makedirs(f, name) ==
  LET head == dirname(name)
      tail == Components(name)
      up == IF head # <<>> /\ tail # <<>> /\ ~exists(f, head)
              THEN makedirs(f, head)
              ELSE [ok |-> TRUE, fs |-> f, err |-> NoErr]
      \* "except FileExistsError: pass" around the recursive call
      f1 == up.fs
  IN IF ~up.ok /\ up.err # "EEXIST" THEN up
     ELSE LET made == mkdir(f1, name) IN
       IF made.ok THEN made
       ELSE IF isdir(f1, name) THEN [ok |-> TRUE, fs |-> f1, err |-> NoErr]
       ELSE made

\* open(path, "w") followed by write and close: the file is created or
\* truncated and holds exactly the bytes given; links are followed.
RECURSIVE open_w(_, _, _, _)
open_w(f, comps, bytes, fuel) ==
  IF comps = <<>> THEN [ok |-> FALSE, fs |-> f, err |-> "EISDIR"]
  ELSE
    LET par == Walk(f, <<>>, Front(comps), MaxSymlinks) IN
    IF ~par.ok THEN [ok |-> FALSE, fs |-> f, err |-> par.err]
    ELSE IF KindAt(f, par.at) # "dir" THEN [ok |-> FALSE, fs |-> f, err |-> "ENOTDIR"]
    ELSE LET leaf == Append(par.at, Last(comps)) IN
      IF leaf \notin DOMAIN f THEN [ok |-> TRUE, fs |-> (leaf :> FileNode(bytes)) @@ f, err |-> NoErr]
      ELSE IF f[leaf].kind = "file" THEN [ok |-> TRUE, fs |-> [f EXCEPT ![leaf] = FileNode(bytes)], err |-> NoErr]
      ELSE IF f[leaf].kind = "dir" THEN [ok |-> FALSE, fs |-> f, err |-> "EISDIR"]
      ELSE IF f[leaf].kind = "link" THEN
        IF fuel = 0 THEN [ok |-> FALSE, fs |-> f, err |-> "ELOOP"]
        ELSE open_w(f, f[leaf].target, bytes, fuel - 1)
      ELSE [ok |-> FALSE, fs |-> f, err |-> "ENXIO"]

\* ------------------------------------------------------------ text file I/O
\* os.linesep of the platform the agent runs on.
LineSep == <<"\n">>

\* Text-mode write with newline=None: every "\n" becomes os.linesep.
RECURSIVE EncodeText(_)
EncodeText(s) ==
  IF s = <<>> THEN <<>>
  ELSE IF Head(s) = "\n" THEN LineSep \o EncodeText(Tail(s))
  ELSE <<Head(s)>> \o EncodeText(Tail(s))

\* Text-mode read with newline=None (universal newlines): "\r\n" and a lone
\* "\r" are both returned as "\n".
RECURSIVE DecodeText(_)
DecodeText(b) ==
  IF b = <<>> THEN <<>>
  ELSE IF Head(b) = "\r" THEN
    IF Len(b) >= 2 /\ b[2] = "\n" THEN <<"\n">> \o DecodeText(Tail(Tail(b)))
    ELSE <<"\n">> \o DecodeText(Tail(b))
  ELSE <<Head(b)>> \o DecodeText(Tail(b))

\* ------------------------------------------------------- functions package
\* sorted(seq) on strings: ascending, and stable (equal elements keep their order).
sorted(seq) ==
  LET n == Len(seq)
      rank(i) == Cardinality({j \in 1..n : \/ StrLess(seq[j], seq[i])
                                           \/ (seq[j] = seq[i] /\ j < i)}) + 1
  IN [k \in 1..n |-> seq[CHOOSE i \in 1..n : rank(i) = k]]

\* posixpath.splitext of a bare name: the extension starts at the last dot,
\* unless only dots precede it.
splitext(name) ==
  LET dots == {i \in 1..Len(name) : name[i] = "."}
      dotIndex == IF dots = {} THEN 0 ELSE CHOOSE k \in dots : \A j \in dots : j <= k
  IN IF dotIndex > 0 /\ \E i \in 1..(dotIndex - 1) : name[i] # "."
       THEN <<SubSeq(name, 1, dotIndex - 1), SubSeq(name, dotIndex, Len(name))>>
       ELSE <<name, <<>>>>

\* One pass of the loop over the names: the entry appended for a directory or a
\* file, nothing for what is neither.
ItemFor(f, norm, name) ==
  LET entry(child_path) ==
        IF isdir(f, child_path) THEN
          <<[name |-> name, path |-> child_path, type |-> "directory",
             extension |-> None, size |-> None]>>
        ELSE IF isfile(f, child_path) THEN
          LET ext == splitext(name)[2] IN
          <<[name |-> name, path |-> child_path, type |-> "file",
             extension |-> IF ext # <<>> /\ Head(ext) = "." THEN Tail(ext)
                           ELSE IF ext # <<>> THEN ext ELSE None,
             size |-> <<getsize(f, child_path)>>]>>
        ELSE <<>>
  IN With(entry, pathjoin(norm, name))

\* "for name in names": the entries appended, in the order of the names.
ItemsOf(f, norm, names) ==
  LET collect(entries) ==
        LET kept == {i \in 1..Len(entries) : entries[i] # <<>>}
        IN [k \in 1..Cardinality(kept) |->
              entries[CHOOSE i \in kept : Cardinality({j \in kept : j < i}) = k - 1][1]]
  IN With(collect, [i \in 1..Len(names) |-> ItemFor(f, norm, names[i])])

\* get_file_info(path), with listing the order os.listdir returned the names in.
get_file_info(f, path, listing) ==
  LET body(norm) ==
        IF ~exists(f, norm) THEN
          [ok |-> FALSE, exc |-> "FileNotFoundError", val |-> <<"Path does not exist: ", norm>>]
        ELSE IF ~isdir(f, norm) THEN
          [ok |-> FALSE, exc |-> "NotADirectoryError", val |-> <<"Path is not a directory: ", norm>>]
        ELSE [ok |-> TRUE, exc |-> NoExc,
              val |-> [current_path |-> norm, items |-> ItemsOf(f, norm, sorted(listing))]]
  IN With(body, normalize_path(path))

\* read_file(path)
read_file(f, path) ==
  LET body(norm) ==
        IF ~exists(f, norm) THEN
          [ok |-> FALSE, exc |-> "FileNotFoundError", val |-> <<"File does not exist: ", norm>>]
        ELSE IF ~isfile(f, norm) THEN
          [ok |-> FALSE, exc |-> "IsADirectoryError", val |-> <<"Not a file: ", norm>>]
        ELSE [ok |-> TRUE, exc |-> NoExc, val |-> DecodeText(f[stat(f, norm).at].data)]
  IN With(body, normalize_path(path))

\* write_file(path, content)
write_file(f, path, content) ==
  LET opened(norm, md) ==
        IF ~md.ok THEN [ok |-> FALSE, exc |-> ExcOf(md.err), fs |-> md.fs, val |-> None]
        ELSE LET written(w) ==
                   IF ~w.ok THEN [ok |-> FALSE, exc |-> ExcOf(w.err), fs |-> w.fs, val |-> None]
                   ELSE [ok |-> TRUE, exc |-> NoExc, fs |-> w.fs,
                         val |-> <<"Wrote ", <<Len(content)>>, " bytes to ", norm>>]
             IN With(written, open_w(md.fs, Components(norm), EncodeText(content), MaxSymlinks))
      body(norm) ==
        LET parent == dirname(norm)
            made(md) == opened(norm, md)
        IN With(made, IF parent # <<>> /\ ~exists(f, parent) THEN makedirs(f, parent)
                      ELSE [ok |-> TRUE, fs |-> f, err |-> NoErr])
  IN With(body, normalize_path(path))

\* -------------------------------------------------------------------- Agent
VARIABLES
  fs,                \* the host filesystem
  allow_writes,      \* Agent.allow_writes
  discovered_files,  \* Agent.discovered_files
  discovered_dirs,   \* Agent.discovered_dirs
  max_steps,         \* the max_steps argument of run
  step,              \* the loop variable of "for _ in range(max_steps)"
  state,             \* AWAITING_MODEL, EXECUTING_TOOLS, DONE or RAISED
  messages,          \* the transcript
  responses,         \* the model's responses so far, one per completions.create call
  tool_calls,        \* the tool calls of the response being handled
  next_call,         \* index in tool_calls of the call to execute next
  result,            \* what run returned
  raised,            \* the exception that left run
  fs_calls           \* calls made into get_file_info / read_file / write_file

vars == <<fs, allow_writes, discovered_files, discovered_dirs, max_steps, step, state,
          messages, responses, tool_calls, next_call, result, raised, fs_calls>>

SYSTEM_PROMPT == <<"SYSTEM_PROMPT">>
MaxStepsMessage == <<"Reached max_steps without completion.">>

\* _record_discovery without its first step: the listed directory is not recorded.
_record_discovery_children_only(info, files, dirs) ==
  LET items == info.items
      idx == 1..Len(items)
  IN [files |-> files \cup {normalize_path(items[i].path) : i \in {j \in idx : items[j].type = "file"}},
      dirs |-> dirs \cup {normalize_path(items[i].path) : i \in {j \in idx : items[j].type = "directory"}}]

\* _record_discovery assigning the sets where it adds to them.
_record_discovery_replaces(info, files, dirs) ==
  LET items == info.items
      idx == 1..Len(items)
  IN [files |-> {normalize_path(items[i].path) : i \in {j \in idx : items[j].type = "file"}},
      dirs |-> {normalize_path(info.current_path)}
                 \cup {normalize_path(items[i].path) : i \in {j \in idx : items[j].type = "directory"}}]

\* Agent._record_discovery: the sets after recording a listing.
_record_discovery(info, files, dirs) ==
  LET items == info.items
      idx == 1..Len(items)
  IN [files |-> files \cup {normalize_path(items[i].path) : i \in {j \in idx : items[j].type = "file"}},
      dirs |-> dirs \cup {normalize_path(info.current_path)}
                    \cup {normalize_path(items[i].path) : i \in {j \in idx : items[j].type = "directory"}}]

allowed_tail ==
  {"a", "b", "c", "d", "e", "f", "g", "h", "i", "j", "k", "l", "m", "n", "o",
   "p", "q", "r", "s", "t", "u", "v", "w", "x", "y", "z", "A", "B", "C", "D",
   "E", "F", "G", "H", "I", "J", "K", "L", "M", "N", "O", "P", "Q", "R", "S",
   "T", "U", "V", "W", "X", "Y", "Z", "0", "1", "2", "3", "4", "5", "6", "7",
   "8", "9", ".", "_", "-", "/", "~", " "}

\* The loop as an if: at most one character is stripped.
strip_tail_once(raw_path) ==
  IF raw_path # <<>> /\ Last(raw_path) \notin allowed_tail
    THEN Front(raw_path)
    ELSE raw_path

\* while raw_path and raw_path[-1] not in allowed_tail: raw_path = raw_path[:-1]
RECURSIVE strip_tail(_)
strip_tail(raw_path) ==
  IF raw_path # <<>> /\ Last(raw_path) \notin allowed_tail
    THEN strip_tail(Front(raw_path))
    ELSE raw_path

\* What _execute_tool hands back: the tool result (ret), or the exception that
\* leaves it (exc), with the filesystem and the discovery sets it leaves behind
\* and the number of calls it made into the functions package.
Outcome(ret, exc, f, files, dirs, calls) ==
  [ret |-> ret, exc |-> exc, fs |-> f, files |-> files, dirs |-> dirs, calls |-> calls]

\* The write gate with its test of the flag inverted.
write_refused_inverted(name, allow) == name = "write_file" /\ allow

\* The write gate left out.
write_refused_never(name, allow) == FALSE

\* The write gate testing for another name than the write tool's.
write_refused_other_name(name, allow) == name = "write" /\ ~allow

\* if name == "write_file" and not self.allow_writes
write_refused(name, allow) == name = "write_file" /\ ~allow

\* The get_file_info branch without its except clause.
exec_get_file_info_uncaught(arguments, listing, f, files, dirs) ==
  LET tried(raw_path) ==
        LET got(r) ==
              IF r.ok THEN
                LET recorded(disc) == Outcome(r.val, NoExc, f, disc.files, disc.dirs, 1)
                IN With(recorded, _record_discovery(r.val, files, dirs))
              ELSE Outcome(None, r.exc, f, files, dirs, 1)
        IN With(got, get_file_info(f, raw_path, listing))
  IN With(tried, strip_tail(IF "path" \in DOMAIN arguments THEN arguments["path"] ELSE <<>>))

\* the get_file_info branch
exec_get_file_info(arguments, listing, f, files, dirs) ==
  LET tried(raw_path) ==
        LET got(r) ==
              IF r.ok THEN
                LET recorded(disc) == Outcome(r.val, NoExc, f, disc.files, disc.dirs, 1)
                IN With(recorded, _record_discovery(r.val, files, dirs))
              ELSE IF r.exc = "FileNotFoundError" THEN
                Outcome([error |-> "not_found", message |-> r.val, path |-> raw_path],
                        NoExc, f, files, dirs, 1)
              ELSE Outcome(None, r.exc, f, files, dirs, 1)
        IN With(got, get_file_info(f, raw_path, listing))
  IN With(tried, strip_tail(IF "path" \in DOMAIN arguments THEN arguments["path"] ELSE <<>>))

\* The read branch without the membership test.
exec_read_file_unchecked(arguments, f, files, dirs) ==
  LET got(r) ==
        IF r.ok THEN Outcome([path |-> normalize_path(arguments["path"]), content |-> r.val],
                             NoExc, f, files, dirs, 1)
        ELSE Outcome(None, r.exc, f, files, dirs, 1)
  IN With(got, read_file(f, normalize_path(arguments["path"])))

\* The read branch reading the file before it tests membership.
exec_read_file_reads_first(arguments, f, files, dirs) ==
  LET got(r) ==
        IF ~r.ok THEN Outcome(None, r.exc, f, files, dirs, 1)
        ELSE IF normalize_path(arguments["path"]) \notin files THEN
          Outcome([error |-> "file_not_confirmed", path |-> normalize_path(arguments["path"])],
                  NoExc, f, files, dirs, 1)
        ELSE Outcome([path |-> normalize_path(arguments["path"]), content |-> r.val],
                     NoExc, f, files, dirs, 1)
  IN With(got, read_file(f, normalize_path(arguments["path"])))

\* the read_file branch
exec_read_file(arguments, f, files, dirs) ==
  IF "path" \notin DOMAIN arguments THEN Outcome(None, "KeyError", f, files, dirs, 0)
  ELSE
    LET checked(norm) ==
          IF norm \notin files THEN
            Outcome([error |-> "file_not_confirmed", path |-> norm], NoExc, f, files, dirs, 0)
          ELSE LET got(r) ==
                     IF r.ok THEN Outcome([path |-> norm, content |-> r.val], NoExc,
                                          f, files, dirs, 1)
                     ELSE Outcome(None, r.exc, f, files, dirs, 1)
               IN With(got, read_file(f, norm))
    IN With(checked, normalize_path(arguments["path"]))

\* the write_file branch
exec_write_file(arguments, f, files, dirs) ==
  IF {"path", "content"} \subseteq DOMAIN arguments THEN
    LET got(r) ==
          IF r.ok THEN Outcome([message |-> r.val], NoExc, r.fs,
                               files \cup {normalize_path(arguments["path"])}, dirs, 1)
          ELSE Outcome(None, r.exc, r.fs, files, dirs, 1)
    IN With(got, write_file(f, arguments["path"], arguments["content"]))
  ELSE Outcome(None, "KeyError", f, files, dirs, 0)

\* _execute_tool with its last branch taken for write_file.
_execute_tool_defaults_to_write(name, arguments, listing, allow, f, files, dirs) ==
  IF write_refused(name, allow) THEN
    Outcome([error |-> "write_not_allowed"], NoExc, f, files, dirs, 0)
  ELSE IF name = "get_file_info" THEN exec_get_file_info(arguments, listing, f, files, dirs)
  ELSE IF name = "read_file" THEN exec_read_file(arguments, f, files, dirs)
  ELSE exec_write_file(arguments, f, files, dirs)

\* Agent._execute_tool
_execute_tool(name, arguments, listing, allow, f, files, dirs) ==
  IF write_refused(name, allow) THEN
    Outcome([error |-> "write_not_allowed"], NoExc, f, files, dirs, 0)
  ELSE IF name = "get_file_info" THEN exec_get_file_info(arguments, listing, f, files, dirs)
  ELSE IF name = "read_file" THEN exec_read_file(arguments, f, files, dirs)
  ELSE IF name = "write_file" THEN exec_write_file(arguments, f, files, dirs)
  ELSE Outcome([error |-> "unknown_tool"], NoExc, f, files, dirs, 0)

\* ------------------------------------------------------------ the host
d == <<"d">>
\* The tree the agent is started in. /d holds a file b, a directory c (with a
\* file e), a link a to the file, a link k to the directory, a dangling link m
\* and a socket s.
InitFS ==
  (<<d>> :> DirNode) @@
  (<<d, <<"a">>>> :> LinkNode(<<d, <<"b">>>>)) @@
  (<<d, <<"b">>>> :> FileNode(<<"x">>)) @@
  (<<d, <<"c">>>> :> DirNode) @@
  (<<d, <<"c">>, <<"e">>>> :> FileNode(<<>>)) @@
  (<<d, <<"k">>>> :> LinkNode(<<d, <<"c">>>>)) @@
  (<<d, <<"m">>>> :> LinkNode(<<<<"z">>>>)) @@
  (<<d, <<"s">>>> :> SocketNode)

\* ------------------------------------------------------------- the model
\* Path arguments the model passes, per tool.
ListPaths == {<<"/", "d">>, <<"/", "d", "/", "b">>, <<"/", "x", "}">>}
ReadPaths == {<<"b">>, <<"/", "d", "/", "n", "/", "w">>}
WritePaths == {<<"/", "d", "/", "n", "/", "w">>, <<"/", "d", "/", "c">>}
WriteContents == {<<"h", "i">>, <<"a", "\r", "b">>}

\* tc.function: a name and the decoded arguments.
ToolFunctions ==
  {[name |-> "get_file_info", arguments |-> [path |-> p]] : p \in ListPaths}
  \cup {[name |-> "read_file", arguments |-> [path |-> p]] : p \in ReadPaths}
  \cup {[name |-> "write_file", arguments |-> [path |-> p, content |-> c]] :
          p \in WritePaths, c \in WriteContents}
  \cup {[name |-> "delete_file", arguments |-> [path |-> <<"/", "d", "/", "b">>]]}
  \cup {[name |-> "append_file", arguments |-> [path |-> <<"/", "d", "/", "b">>,
                                                content |-> <<"h", "i">>]]}

\* msg.content of a response: absent, empty or a text.
FinalContents == {None, <<>>, <<"o", "k">>}

\* The lists of n tool calls a response to query number q may carry: the API
\* gives each call its own id.
ToolCallLists(q, n) ==
  {[i \in 1..n |-> [id |-> <<q, i>>, function |-> fns[i]]] : fns \in [1..n -> ToolFunctions]}

\* ---------------------------------------------------------------- Agent.run
\* Agent(...) constructed and run(user_message, max_steps) entered.
Init ==
  /\ fs = InitFS
  /\ allow_writes \in BOOLEAN
  /\ discovered_files = {}
  /\ discovered_dirs = {}
  /\ max_steps \in 0..MaxSteps
  /\ step = 0
  /\ state = "AWAITING_MODEL"
  /\ messages = <<[role |-> "system", content |-> SYSTEM_PROMPT],
                  [role |-> "user", content |-> <<"user_message">>]>>
  /\ responses = <<>>
  /\ tool_calls = <<>>
  /\ next_call = 1
  /\ result = None
  /\ raised = NoExc
  /\ fs_calls = 0

\* msg.content or ""
content_or_empty(content) == IF content = None THEN <<>> ELSE content

\* The loop bound off by one.
loop_continues_inclusive(i, k) == i <= k

\* The loop is entered for another round: range(max_steps) is not exhausted.
loop_continues(i, k) == i < k

\* The tool calls the model has issued so far.
RECURSIVE CallsIssued(_)
CallsIssued(resps) ==
  IF resps = <<>> THEN 0 ELSE Len(Head(resps).tool_calls) + CallsIssued(Tail(resps))

\* A round's completions.create returns a response with tool calls: the
\* assistant message is appended and the calls are executed next.
QueryModelToolCalls ==
  /\ state = "AWAITING_MODEL"
  /\ loop_continues(step, max_steps)
  /\ \E n \in 1..MaxCalls :
       /\ CallsIssued(responses) + n <= MaxToolCalls
       /\ \E tcs \in ToolCallLists(Len(responses) + 1, n) :
            /\ responses' = Append(responses, [content |-> None, tool_calls |-> tcs])
            /\ messages' = Append(messages, [role |-> "assistant",
                                             content |-> content_or_empty(None),
                                             tool_calls |-> tcs])
            /\ tool_calls' = tcs
  /\ next_call' = 1
  /\ state' = "EXECUTING_TOOLS"
  /\ UNCHANGED <<fs, allow_writes, discovered_files, discovered_dirs, max_steps, step,
                 result, raised, fs_calls>>

\* A round's completions.create returns a response without tool calls: run
\* returns its content.
QueryModelFinal ==
  /\ state = "AWAITING_MODEL"
  /\ loop_continues(step, max_steps)
  /\ \E c \in FinalContents :
       /\ responses' = Append(responses, [content |-> c, tool_calls |-> <<>>])
       /\ result' = content_or_empty(c)
  /\ state' = "DONE"
  /\ UNCHANGED <<fs, allow_writes, discovered_files, discovered_dirs, max_steps, step,
                 messages, tool_calls, next_call, raised, fs_calls>>

\* The orders os.listdir may answer in when this call lists a directory.
ListingsFor(fn, f) ==
  LET norm == normalize_path(strip_tail(fn.arguments["path"])) IN
  IF fn.name = "get_file_info" /\ isdir(f, norm) THEN ListdirOrders(f, norm) ELSE {<<>>}

\* One pass of "for tc in tool_calls": the call is executed and its result
\* appended; after the last call the loop goes to its next round. An exception
\* _execute_tool does not catch leaves run.
ExecuteTool ==
  /\ state = "EXECUTING_TOOLS"
  /\ LET tc == tool_calls[next_call]
         fn == tc.function
     IN \E listing \in ListingsFor(fn, fs) :
        \E o \in {_execute_tool(fn.name, fn.arguments, listing, allow_writes,
                                fs, discovered_files, discovered_dirs)} :
          /\ fs' = o.fs
          /\ discovered_files' = o.files
          /\ discovered_dirs' = o.dirs
          /\ fs_calls' = fs_calls + o.calls
          /\ IF o.exc # NoExc
               THEN /\ raised' = o.exc
                    /\ state' = "RAISED"
                    /\ UNCHANGED <<messages, next_call, step>>
               ELSE /\ messages' = Append(messages, [role |-> "tool",
                                                     tool_call_id |-> tc.id,
                                                     name |-> fn.name,
                                                     content |-> o.ret])
                    /\ raised' = raised
                    /\ IF next_call = Len(tool_calls)
                         THEN /\ step' = step + 1
                              /\ state' = "AWAITING_MODEL"
                              /\ next_call' = next_call
                         ELSE /\ next_call' = next_call + 1
                              /\ UNCHANGED <<step, state>>
  /\ UNCHANGED <<allow_writes, max_steps, responses, tool_calls, result>>

\* range(max_steps) is exhausted: run returns the fixed message.
ForcedStop ==
  /\ state = "AWAITING_MODEL"
  /\ ~loop_continues(step, max_steps)
  /\ result' = MaxStepsMessage
  /\ state' = "DONE"
  /\ UNCHANGED <<fs, allow_writes, discovered_files, discovered_dirs, max_steps, step,
                 messages, responses, tool_calls, next_call, raised, fs_calls>>

\* Longest path argument of a listing call in the runs of StripSpec.
MaxPathLen == 4
\* The characters those arguments are made of: two the tail may end in, two it
\* may not.
PathChars == {"/", "d", "}", "\""}
RawPaths == UNION {[1..n -> PathChars] : n \in 0..MaxPathLen}

\* A round's completions.create returns a response with one get_file_info call,
\* its path argument any string of RawPaths.
QueryModelListing ==
  /\ state = "AWAITING_MODEL"
  /\ loop_continues(step, max_steps)
  /\ \E p \in RawPaths :
       \E tcs \in {<<[id |-> <<Len(responses) + 1, 1>>,
                      function |-> [name |-> "get_file_info", arguments |-> [path |-> p]]]>>} :
         /\ responses' = Append(responses, [content |-> None, tool_calls |-> tcs])
         /\ messages' = Append(messages, [role |-> "assistant",
                                          content |-> content_or_empty(None),
                                          tool_calls |-> tcs])
         /\ tool_calls' = tcs
  /\ next_call' = 1
  /\ state' = "EXECUTING_TOOLS"
  /\ UNCHANGED <<fs, allow_writes, discovered_files, discovered_dirs, max_steps, step,
                 result, raised, fs_calls>>

\* Runs of one round whose response is a single listing call.
StripInit == Init /\ max_steps = 1
StripNext == QueryModelListing \/ ExecuteTool \/ ForcedStop
StripSpec == StripInit /\ [][StripNext]_vars

Next == QueryModelToolCalls \/ QueryModelFinal \/ ExecuteTool \/ ForcedStop

Spec == Init /\ [][Next]_vars

\* ============================================================= properties
\* Reading the transcript.
IsTool(m) == m.role = "tool"
IsListing(m) == IsTool(m) /\ "current_path" \in DOMAIN m.content
IsError(m, e) == IsTool(m) /\ "error" \in DOMAIN m.content /\ m.content.error = e
IsReadOk(m) == IsTool(m) /\ m.name = "read_file" /\ "content" \in DOMAIN m.content
IsWriteOk(m) == IsTool(m) /\ m.name = "write_file" /\ "message" \in DOMAIN m.content

\* The call a tool message answers, and the answer to a call (if it has one).
CallOf(m) == responses[m.tool_call_id[1]].tool_calls[m.tool_call_id[2]].function
Answered(id) == \E i \in 1..Len(messages) : IsTool(messages[i]) /\ messages[i].tool_call_id = id
AnswerTo(id) ==
  messages[CHOOSE i \in 1..Len(messages) : IsTool(messages[i]) /\ messages[i].tool_call_id = id]

\* The call about to be executed.
Executing == state = "EXECUTING_TOOLS"
Current == tool_calls[next_call].function
\* The step appends one tool message.
Appends == Len(messages') = Len(messages) + 1 /\ SubSeq(messages', 1, Len(messages)) = messages
Appended == messages'[Len(messages')]

\* The kind of the entry a path names, links not followed (lstat).
lstat_kind(f, path) ==
  LET comps == Components(path)
      par == Walk(f, <<>>, Front(comps), MaxSymlinks)
  IN IF comps = <<>> THEN "dir"
     ELSE IF par.ok /\ Append(par.at, Last(comps)) \in DOMAIN f
       THEN f[Append(par.at, Last(comps))].kind
     ELSE "absent"

\* The file paths message m confirms: the file-kind entries of a listing, or the
\* target of a write that succeeded.
ConfirmedBy(m) ==
  IF IsListing(m)
    THEN {m.content.items[j].path :
            j \in {k \in 1..Len(m.content.items) : m.content.items[k].type = "file"}}
  ELSE IF IsWriteOk(m) THEN {normalize_path(CallOf(m).arguments["path"])}
  ELSE {}
ConfirmedBefore(n) == UNION {ConfirmedBy(messages[i]) : i \in 1..(n - 1)}

\* C1: a read succeeds only for a path that an earlier listing of the session
\* returned as a file or an earlier write of the session wrote, and
\* discovered_files holds exactly the paths confirmed in one of these two ways.
C1_ReadOnlyConfirmed ==
  /\ discovered_files = ConfirmedBefore(Len(messages) + 1)
  /\ \A i \in 1..Len(messages) :
       IsReadOk(messages[i]) => messages[i].content.path \in ConfirmedBefore(i)

\* A read has succeeded.
C1_Witness ==
  \E i \in 1..Len(messages) :
    IsReadOk(messages[i]) /\ messages[i].content.path \in discovered_files

\* C2: with allow_writes false, executing a write_file call answers
\* write_not_allowed and changes neither the filesystem nor the discovery sets.
C2_WriteRefused ==
  [][(Executing /\ Current.name = "write_file" /\ ~allow_writes)
       => /\ Appends
          /\ IsError(Appended, "write_not_allowed")
          /\ UNCHANGED <<fs, discovered_files, discovered_dirs>>]_vars

\* A write was refused in a session whose discovery sets are not empty.
C2_Witness ==
  /\ ~allow_writes
  /\ discovered_files # {}
  /\ discovered_dirs # {}
  /\ LET m == messages[Len(messages)]
     IN IsTool(m) /\ m.name = "write_file" /\ IsError(m, "write_not_allowed")

\* C3: no failing tool call leaves Agent.run as an exception: every one is
\* answered by a tool result.
C3_NoFailureLeavesRun == state # "RAISED"

\* The call that follows call i of response q in execution order, if any.
HasNextCall(q, i) ==
  \/ i < Len(responses[q].tool_calls)
  \/ (q < Len(responses) /\ responses[q + 1].tool_calls # <<>>)
NextCallId(q, i) == IF i < Len(responses[q].tool_calls) THEN <<q, i + 1>> ELSE <<q + 1, 1>>

\* C4: with allow_writes true, a read_file(p) that directly follows a
\* write_file(p, c) succeeds with content exactly c.
C4_WriteThenRead ==
  allow_writes =>
    \A q \in 1..Len(responses) : \A i \in 1..Len(responses[q].tool_calls) :
      LET w == responses[q].tool_calls[i].function IN
      (w.name = "write_file" /\ HasNextCall(q, i)) =>
        LET id == NextCallId(q, i)
            r == responses[id[1]].tool_calls[id[2]].function
        IN (r.name = "read_file" /\ r.arguments["path"] = w.arguments["path"] /\ Answered(id))
             => AnswerTo(id).content = [path |-> normalize_path(w.arguments["path"]),
                                        content |-> w.arguments["content"]]

\* C5: run makes at most max_steps model queries, and none when max_steps is 0.
C5_QueriesBounded ==
  /\ Len(responses) <= max_steps
  /\ (max_steps = 0 => responses = <<>>)

\* A run that used its whole budget of at least one query and was stopped.
C5_Witness ==
  /\ state = "DONE"
  /\ max_steps >= 1
  /\ Len(responses) = max_steps
  /\ result = MaxStepsMessage

\* C6: executing a read_file call whose normalized path is not in
\* discovered_files answers file_not_confirmed, calls nothing that touches the
\* filesystem and leaves the discovery sets unchanged.
C6_UnconfirmedRead ==
  [][(Executing /\ Current.name = "read_file"
        /\ normalize_path(Current.arguments["path"]) \notin discovered_files)
       => /\ Appends
          /\ IsError(Appended, "file_not_confirmed")
          /\ fs_calls' = fs_calls
          /\ UNCHANGED <<fs, discovered_files, discovered_dirs>>]_vars

\* A read of a file that exists on disk was answered file_not_confirmed.
C6_Witness ==
  LET m == messages[Len(messages)]
  IN /\ IsError(m, "file_not_confirmed")
     /\ isfile(fs, m.content.path)
     /\ m.content.path \notin discovered_files

\* The text of a response: its content, empty when it has none.
TextOf(resp) == IF resp.content = None THEN <<>> ELSE resp.content
\* The queries whose response carried no tool call.
FinalAnswers == {q \in 1..Len(responses) : responses[q].tool_calls = <<>>}

\* What run returns when it does return: the text of the first response without
\* tool calls, which is the last query made, or else the fixed message after
\* max_steps responses with tool calls.
ResultWhenDone ==
  state = "DONE" =>
    IF FinalAnswers # {}
      THEN /\ FinalAnswers = {Len(responses)}
           /\ Len(responses) <= max_steps
           /\ result = TextOf(responses[Len(responses)])
      ELSE /\ Len(responses) = max_steps
           /\ result = MaxStepsMessage

\* C7: run ends in DONE, with the text of the first response without tool
\* calls (and no query after it), or with the fixed message when all max_steps
\* responses carried tool calls.
C7_RunEndsDone ==
  state \in {"DONE", "RAISED"} => (state = "DONE" /\ ResultWhenDone)

\* C8: a listing of directory D holds exactly one entry per child of D that is
\* itself a regular file or a directory, in ascending order of name, tagged
\* with the child's own kind.
C8_ListingExact ==
  LET m == messages[Len(messages)] IN
  IsListing(m) =>
    LET D == m.content.current_path
        items == m.content.items
        kids == {n \in ChildNames(fs, D) : lstat_kind(fs, pathjoin(D, n)) \in {"file", "dir"}}
    IN /\ Len(items) = Cardinality(kids)
       /\ {items[j].name : j \in 1..Len(items)} = kids
       /\ \A j, k \in 1..Len(items) : j < k => StrLess(items[j].name, items[k].name)
       /\ \A j \in 1..Len(items) :
            items[j].type = IF lstat_kind(fs, items[j].path) = "dir" THEN "directory" ELSE "file"

\* What a listing does hold: one entry per child whose path, links followed, is
\* a directory or a regular file, in ascending order of name, tagged with the
\* kind of what the path leads to.
ListingFollowsLinks ==
  LET m == messages[Len(messages)] IN
  IsListing(m) =>
    LET D == m.content.current_path
        items == m.content.items
        kids == {n \in ChildNames(fs, D) : isdir(fs, pathjoin(D, n)) \/ isfile(fs, pathjoin(D, n))}
    IN /\ Len(items) = Cardinality(kids)
       /\ {items[j].name : j \in 1..Len(items)} = kids
       /\ \A j, k \in 1..Len(items) : j < k => StrLess(items[j].name, items[k].name)
       /\ \A j \in 1..Len(items) :
            items[j].type = IF isdir(fs, items[j].path) THEN "directory" ELSE "file"

\* C9: no entry of a listing is a symbolic link or another entry that is
\* neither file nor directory, so a listing adds no such path to the
\* discovery sets.
C9_LinksNeverListed ==
  \A i \in 1..Len(messages) :
    IsListing(messages[i]) =>
      \A j \in 1..Len(messages[i].content.items) :
        LET p == messages[i].content.items[j].path
        IN /\ lstat_kind(fs, p) \in {"file", "dir"}
           /\ (p \in discovered_files \cup discovered_dirs => lstat_kind(fs, p) # "link")

\* C10: the filesystem changes only in the execution of a write_file call
\* while allow_writes is true.
C10_OnlyWritesChangeFs ==
  [][fs' # fs => (Executing /\ Current.name = "write_file" /\ allow_writes)]_vars

\* A write changed the filesystem in a session in which another tool call
\* (a listing, a read or an unknown tool) was answered too.
C10_Witness ==
  /\ fs # InitFS
  /\ \E i \in 1..Len(messages) : IsWriteOk(messages[i])
  /\ \E i \in 1..Len(messages) : IsTool(messages[i]) /\ messages[i].name # "write_file"

\* The transcript after the two opening messages, message by message: <<0, q>>
\* for the assistant message of response q, the call's identifier for a tool
\* result.
TagOf(m) ==
  IF m.role = "assistant"
    THEN <<0, CHOOSE q \in 1..Len(responses) : responses[q].tool_calls = m.tool_calls>>
    ELSE m.tool_call_id
ActualTags == [i \in 1..(Len(messages) - 2) |-> TagOf(messages[i + 2])]

\* What the rounds so far put into the transcript when each runs to its end:
\* per response with tool calls, the assistant message and then one result per
\* call in the order of the calls.
RECURSIVE RoundTags(_)
RoundTags(q) ==
  IF q = 0 THEN <<>>
  ELSE LET tcs == responses[q].tool_calls IN
    IF tcs = <<>> THEN RoundTags(q - 1)
    ELSE RoundTags(q - 1) \o <<<<0, q>>>> \o [i \in 1..Len(tcs) |-> tcs[i].id]
ExpectedTags == RoundTags(Len(responses))

\* The transcript is what the rounds put into it, less the last `pending`
\* results; every tool result carries the name of the call it answers and the
\* assistant message the calls of its response.
LayoutLess(pending) ==
  /\ ActualTags = SubSeq(ExpectedTags, 1, Len(ExpectedTags) - pending)
  /\ \A i \in 3..Len(messages) :
       IF IsTool(messages[i]) THEN messages[i].name = CallOf(messages[i]).name
       ELSE messages[i].tool_calls = responses[TagOf(messages[i])[2]].tool_calls

\* C11: a round with n tool calls appends the assistant message and then
\* exactly n tool results, one per call, in the order of the calls and tagged
\* with their identifiers; results are missing only for the calls of the
\* current round that are still to be executed, so the next query (and the end
\* of run) comes after all n.
C11_RoundsComplete ==
  LayoutLess(IF Executing THEN Len(tool_calls) - next_call + 1 ELSE 0)

\* What does hold: results are missing only for the calls not executed yet, or
\* never executed because an earlier call of the round raised.
RoundsUntilRaise ==
  LayoutLess(IF state \in {"EXECUTING_TOOLS", "RAISED"}
               THEN Len(tool_calls) - next_call + 1 ELSE 0)

\* The paths of the entries of a listing that carry the given type.
PathsOfType(info, type) ==
  {info.items[j].path : j \in {k \in 1..Len(info.items) : info.items[k].type = type}}

\* C12: a get_file_info call that succeeds on directory D (the stripped,
\* normalized path argument) adds to discovered_dirs exactly D and the paths
\* returned with type directory, and to discovered_files exactly the paths
\* returned with type file.
C12_ListingRecorded ==
  [][(Executing /\ Current.name = "get_file_info" /\ Appends /\ IsListing(Appended))
       => LET info == Appended.content
              D == normalize_path(strip_tail(Current.arguments["path"]))
          IN /\ info.current_path = D
             /\ discovered_dirs' = discovered_dirs \cup {D} \cup PathsOfType(info, "directory")
             /\ discovered_files' = discovered_files \cup PathsOfType(info, "file")]_vars

\* A listing with entries of both kinds has just been recorded, in a session
\* that had confirmed a file before.
C12_Witness ==
  LET m == messages[Len(messages)] IN
  /\ IsListing(m)
  /\ PathsOfType(m.content, "directory") # {}
  /\ PathsOfType(m.content, "file") # {}
  /\ m.content.current_path \in discovered_dirs
  /\ discovered_files \ PathsOfType(m.content, "file") # {}

\* The step goes on to the next call of the round, or after the last call to
\* the next round of the loop.
RunContinues ==
  IF next_call = Len(tool_calls)
    THEN state' = "AWAITING_MODEL" /\ step' = step + 1
    ELSE state' = "EXECUTING_TOOLS" /\ next_call' = next_call + 1

\* C13: a get_file_info call whose stripped, normalized path does not exist is
\* answered by a not_found error carrying the stripped path, leaves the
\* discovery sets (and the filesystem) unchanged, and run continues.
C13_NotFound ==
  [][(Executing /\ Current.name = "get_file_info"
        /\ ~exists(fs, normalize_path(strip_tail(Current.arguments["path"]))))
       => /\ Appends
          /\ IsError(Appended, "not_found")
          /\ Appended.content.path = strip_tail(Current.arguments["path"])
          /\ UNCHANGED <<fs, discovered_files, discovered_dirs>>
          /\ RunContinues]_vars

\* A listing of a path that does not exist was answered not_found and the call
\* after it was executed and answered, in a session that has discovered paths.
C13_Witness ==
  /\ discovered_files # {}
  /\ discovered_dirs # {}
  /\ IsError(messages[Len(messages) - 1], "not_found")
  /\ ~exists(fs, normalize_path(messages[Len(messages) - 1].content.path))
  /\ IsTool(messages[Len(messages)])

ToolNames == {"get_file_info", "read_file", "write_file"}

\* C14: a call of a tool that is none of the three is answered unknown_tool,
\* whatever allow_writes and its arguments are, and changes neither the
\* discovery sets nor the filesystem (and calls none of the primitives).
C14_UnknownTool ==
  [][(Executing /\ Current.name \notin ToolNames)
       => /\ Appends
          /\ Appended.content = [error |-> "unknown_tool"]
          /\ fs_calls' = fs_calls
          /\ UNCHANGED <<fs, discovered_files, discovered_dirs>>]_vars

\* With allow_writes true, a call of an unknown tool that carries the arguments
\* of a write, for a file the session has confirmed, was answered unknown_tool.
C14_Witness ==
  LET m == messages[Len(messages)] IN
  /\ allow_writes
  /\ IsError(m, "unknown_tool")
  /\ m.name \notin ToolNames
  /\ "content" \in DOMAIN CallOf(m).arguments
  /\ normalize_path(CallOf(m).arguments["path"]) \in discovered_files

\* The same with allow_writes false.
C14_WitnessNoWrites ==
  LET m == messages[Len(messages)] IN
  ~allow_writes /\ IsError(m, "unknown_tool") /\ "content" \in DOMAIN CallOf(m).arguments

\* The prefixes of s, and the longest one that is empty or ends in a character
\* of the allowed set.
Prefixes(s) == {SubSeq(s, 1, k) : k \in 0..Len(s)}
EndsAllowed(h) == h = <<>> \/ Last(h) \in allowed_tail
LongestAllowedPrefix(s) ==
  CHOOSE h \in Prefixes(s) :
    EndsAllowed(h) /\ \A g \in Prefixes(s) : EndsAllowed(g) => Len(g) <= Len(h)

\* C15: the path a listing call hands to get_file_info is the longest prefix of
\* its path argument that ends in an allowed character (the empty string when
\* there is none): the argument itself when it ends in one, and never with a
\* character removed from anywhere but the tail. The answer shows it: a
\* not_found error carries that prefix, a listing is of its normalized form.
C15_TailStripped ==
  [][(Executing /\ Current.name = "get_file_info")
       => LET s == Current.arguments["path"]
              h == LongestAllowedPrefix(s)
          IN /\ strip_tail(s) = h
             /\ (s # <<>> /\ Last(s) \in allowed_tail => strip_tail(s) = s)
             /\ (Appends /\ IsError(Appended, "not_found") => Appended.content.path = h)
             /\ (Appends /\ IsListing(Appended)
                   => Appended.content.current_path = normalize_path(h))]_vars

\* A listing call was answered whose argument lost two characters at its tail
\* and kept a character outside the allowed set before them.
C15_Witness ==
  LET m == messages[Len(messages)] IN
  /\ IsError(m, "not_found")
  /\ Len(CallOf(m).arguments["path"]) = Len(m.content.path) + 2
  /\ \E k \in 1..Len(m.content.path) : m.content.path[k] \notin allowed_tail

\* The tool result is one of the four structured errors.
IsAnyError(m) ==
  \E e \in {"not_found", "file_not_confirmed", "write_not_allowed", "unknown_tool"} : IsError(m, e)

\* C16: no step removes a path from discovered_files or discovered_dirs, and a
\* tool call answered by an error leaves both sets as they were.
C16_DiscoveryGrows ==
  [][/\ discovered_files \subseteq discovered_files'
     /\ discovered_dirs \subseteq discovered_dirs'
     /\ (Appends /\ IsAnyError(Appended)
           => UNCHANGED <<discovered_files, discovered_dirs>>)]_vars

\* A write confirmed a file, and the listing after it, which does not hold
\* that file, was recorded with the file still in the set.
C16_Witness ==
  LET m == messages[Len(messages)] IN
  /\ IsListing(m)
  /\ IsWriteOk(messages[Len(messages) - 1])
  /\ ConfirmedBy(messages[Len(messages) - 1]) \ ConfirmedBy(m) # {}
  /\ ConfirmedBy(messages[Len(messages) - 1]) \subseteq discovered_files

\* A call was answered by an error in a session whose sets are not empty.
C16_WitnessError ==
  /\ IsAnyError(messages[Len(messages)])
  /\ ~IsAnyError(messages[Len(messages) - 1])
  /\ discovered_files # {}
  /\ discovered_dirs # {}

\* C17: no step changes allow_writes, and in a session constructed with
\* allow_writes false no step changes the filesystem.
C17_FlagConstant ==
  [][/\ allow_writes' = allow_writes
     /\ (~allow_writes => fs' = fs)]_vars

\* A session with allow_writes false was asked to write twice and has returned:
\* the flag is still false and the tree is the one it started in.
C17_Witness ==
  /\ state = "DONE"
  /\ ~allow_writes
  /\ fs = InitFS
  /\ Cardinality({i \in 1..Len(messages) : IsError(messages[i], "write_not_allowed")}) = 2

\* run has returned because range(max_steps) was exhausted, after at least one
\* round.
ForcedEnd == state = "DONE" /\ FinalAnswers = {} /\ max_steps >= 1

\* The file a successful write left behind holds the content written.
Holds(f, fn) ==
  LET norm == normalize_path(fn.arguments["path"])
  IN isfile(f, norm) /\ f[stat(f, norm).at].data = EncodeText(fn.arguments["content"])

\* At a forced end the last response is number max_steps, each of its calls
\* has been executed and answered, the answers are the last messages of the
\* transcript in the order of the calls, and what its last successful write to
\* a path wrote is in the filesystem.
LastRoundExecuted ==
  ForcedEnd =>
    /\ result = MaxStepsMessage
    /\ Len(responses) = max_steps
    /\ LET tcs == responses[max_steps].tool_calls
           n == Len(tcs)
           base == Len(messages) - n
       IN /\ n >= 1
          /\ messages[base].role = "assistant" /\ messages[base].tool_calls = tcs
          /\ \A i \in 1..n :
               /\ IsTool(messages[base + i])
               /\ messages[base + i].tool_call_id = tcs[i].id
               /\ messages[base + i].name = tcs[i].function.name
               /\ (/\ IsWriteOk(messages[base + i])
                   /\ \A j \in (i + 1)..n :
                        IsWriteOk(messages[base + j])
                          => normalize_path(tcs[j].function.arguments["path"])
                               # normalize_path(tcs[i].function.arguments["path"]))
                    => Holds(fs, tcs[i].function)

\* A model query is made only while the transcript holds no result of a call
\* of response number max_steps.
LastRoundUnseen ==
  responses' # responses =>
    \A i \in 1..Len(messages) :
      IsTool(messages[i]) => messages[i].tool_call_id[1] < max_steps

\* C18: when run ends by forced termination with max_steps >= 1, the calls of
\* the last (max_steps-th) response have all been executed, writes included,
\* and their results appended, and no model query was ever made with a
\* transcript that holds one of these results.
C18_LastRoundUnseen == [](LastRoundExecuted) /\ [][LastRoundUnseen]_vars

\* A forced end after two rounds whose last call, a write, changed the
\* filesystem: its result is the last message of the transcript.
C18_Witness ==
  /\ ForcedEnd
  /\ max_steps = 2
  /\ IsWriteOk(messages[Len(messages)])
  /\ messages[Len(messages)].tool_call_id[1] = max_steps
  /\ fs # InitFS

====
